---- MODULE Spec2Model ----
(***************************************************************************)
(* analog-qec: resource estimation for an analog simulator                 *)
(* (library/analog_simulator.py), a digital fault-tolerant computer        *)
(* (library/digital_resource_estimator.py) and their comparison report     *)
(* (report_generator.py).                                                  *)
(*                                                                         *)
(* Numbers.  Python floats are modelled by exact rationals [n, d] in       *)
(* lowest terms with d > 0; d = 0 stands for an IEEE infinity.  The inputs *)
(* of the model are dyadic (k/8) or small integers, for which the float    *)
(* products and sums taken below are exact.  Error rates are drawn from    *)
(* the decade grid 10^-k and are stored as the exponent k, so that         *)
(* ln(a / b) is (up to the common factor ln 10) a difference of exponents  *)
(* and a quotient of logarithms is a quotient of integers.                 *)
(***************************************************************************)
EXTENDS Integers, Sequences, FiniteSets, TLC

VARIABLES
    digital_args,       \* {} or {a}: the arguments DigitalResourceConfig was called with
    digital_config,     \* {} or {c}: the DigitalResourceConfig object, once it exists
    digital_estimator,  \* {} or {e}: the DigitalResourceEstimator object, once it exists
    digital_raised,     \* exception raised by a digital constructor, "none" if none
    analog_args,        \* {} or {a}: the arguments AnalogSimulatorConfig was called with
    analog_config,      \* {} or {c}: the AnalogSimulatorConfig object
    analog_sim,         \* {} or {s}: the AnalogSimulator object
    analog_raised,      \* exception raised by an analog constructor, "none" if none
    report,             \* {} or {r}: the dict returned by generate_comparison_report
    report_raised,      \* exception raised by generate_comparison_report
    table,              \* {} or {t}: what format_report_table returned
    table_raised,       \* exception raised by format_report_table
    ret                 \* the value returned by the last query method

vars == <<digital_args, digital_config, digital_estimator, digital_raised,
          analog_args, analog_config, analog_sim, analog_raised,
          report, report_raised, table, table_raised, ret>>

digital_vars == <<digital_args, digital_config, digital_estimator, digital_raised>>
analog_vars == <<analog_args, analog_config, analog_sim, analog_raised>>
report_vars == <<report, report_raised>>
table_vars == <<table, table_raised>>

----------------------------------------------------------------------------
(* Float arithmetic on exact rationals.                                    *)

Abs(x) == IF x < 0 THEN -x ELSE x

Max(a, b) == IF a >= b THEN a ELSE b

RECURSIVE GCD(_, _)
GCD(a, b) == IF b = 0 THEN a ELSE GCD(b, a % b)

\* n / d in lowest terms; d = 0 is +inf or -inf by the sign of n.
Rat(n, d) ==
    IF d = 0
    THEN [n |-> IF n < 0 THEN -1 ELSE 1, d |-> 0]
    ELSE LET g == GCD(Abs(n), Abs(d))
             s == IF d < 0 THEN -1 ELSE 1
         IN  [n |-> (s * n) \div g, d |-> Abs(d) \div g]

FromInt(i) == [n |-> i, d |-> 1]

Zero == FromInt(0)

One == FromInt(1)

IsInf(a) == a.d = 0

RAdd(a, b) ==
    IF IsInf(a) THEN a
    ELSE IF IsInf(b) THEN b
    ELSE Rat(a.n * b.d + b.n * a.d, a.d * b.d)

RNeg(a) == [n |-> -a.n, d |-> a.d]

RSub(a, b) == RAdd(a, RNeg(b))

RMul(a, b) ==
    IF IsInf(a) \/ IsInf(b)
    THEN Rat(a.n * b.n, 0)
    ELSE LET g1 == GCD(Abs(a.n), b.d)
             g2 == GCD(Abs(b.n), a.d)
         IN  Rat((a.n \div g1) * (b.n \div g2), (a.d \div g2) * (b.d \div g1))

\* IEEE quotient: x / 0 is an infinity.  Python raises before producing it,
\* see ZeroDivisionError below.
RDiv(a, b) ==
    IF b.n = 0 THEN Rat(a.n, 0)
    ELSE IF IsInf(b) THEN Zero
    ELSE RMul(a, Rat(b.d, b.n))

RLt(a, b) == a.n * b.d < b.n * a.d

RLe(a, b) == a.n * b.d <= b.n * a.d

\* Python: a float (or int) division whose divisor is zero raises.
ZeroDivisionError(divisor) == divisor.n = 0

\* Python int(x): truncation toward zero.
int(a) == IF a.n >= 0 THEN a.n \div a.d ELSE -((-a.n) \div a.d)

\* math.floor / numpy.ceil
floor(a) == a.n \div a.d

ceil(a) == -((-a.n) \div a.d)

\* Python round(x): nearest integer, ties to the even neighbour.
round(a) ==
    LET f == floor(a)
        twice == RMul(FromInt(2), RSub(a, FromInt(f)))  \* 2 * fractional part
    IN  IF RLt(twice, One) THEN f
        ELSE IF RLt(One, twice) THEN f + 1
        ELSE IF f % 2 = 0 THEN f ELSE f + 1

\* Python round(x, 2); an infinity rounds to itself.  A tie (x * 100 ending
\* in exactly one half) is a tie of the float only for dyadic x: 0.125 is,
\* 0.005 is not (the float nearest 0.005 lies above it and rounds to 0.01).
round2(a) ==
    IF IsInf(a) THEN a
    ELSE Rat(round(RMul(a, FromInt(100))), 100)

RECURSIVE IsPowerOfTwo(_)
IsPowerOfTwo(n) == n = 1 \/ (n > 1 /\ n % 2 = 0 /\ IsPowerOfTwo(n \div 2))

\* a is a float exactly: its denominator is a power of two.
IsDyadic(a) == IsPowerOfTwo(a.d)

\* a * 100 lies exactly half way between two integers.
TieAtTwoDecimals(a) ==
    LET x == RMul(a, FromInt(100))
    IN  RMul(FromInt(2), RSub(x, FromInt(floor(x)))) = One

\* What round(x, 2) can return for the float nearest the exact value a: the
\* float of a tie that is not dyadic lies to one side of it, which side is
\* not modelled, so both neighbours are allowed.
round2_values(a) ==
    IF ~IsInf(a) /\ TieAtTwoDecimals(a) /\ ~IsDyadic(a)
    THEN LET f == floor(RMul(a, FromInt(100)))
         IN  {Rat(f, 100), Rat(f + 1, 100)}
    ELSE {round2(a)}

----------------------------------------------------------------------------
(* Bounds of the model and the argument sets drawn from.                   *)

MaxLogicalQubits == 2

MaxTargetExp == 5

\* digital_error_rate = 10^-k: 0.01 (at threshold), 1e-3, 1e-5
ErrorRateExps == {2, 3, 5}

\* target_logical_error_rate = 10^-k
TargetRateExps == 1 .. MaxTargetExp

TargetRuntimes == {Rat(1, 2), FromInt(25)}

\* Optional[...] arguments: {} is None, {v} is the value v.
CodeDistances == {{}, {2}, {3}}

QubitsPerLogical == {{}, {7}}

TGateCounts == {1, 100}

MagicStateOverheadFactors == {Rat(3, 8), FromInt(2)}

CompilationOverheadFactors == {Rat(5, 8), Rat(11, 8), Rat(3, 2)}

PhysicalGateTimes == {Rat(1, 8)}

GateTimes == {{}, {Rat(1, 4)}}

DigitalArgs ==
    [logical_qubits : 1 .. MaxLogicalQubits,
     target_runtime : TargetRuntimes,
     digital_error_rate : ErrorRateExps,
     target_logical_error_rate : TargetRateExps,
     code_distance : CodeDistances,
     qubits_per_logical : QubitsPerLogical,
     t_gate_count : TGateCounts,
     magic_state_overhead_factor : MagicStateOverheadFactors,
     compilation_overhead_factor : CompilationOverheadFactors,
     physical_gate_time : PhysicalGateTimes,
     logical_gate_time : GateTimes,
     error_correction_cycle_time : GateTimes]

----------------------------------------------------------------------------
(* DigitalResourceConfig                                                   *)

\* p_th = 0.01 = 10^-2
p_th == 2

\* a >= b for two rates given by their exponents
RateGE(a, b) == a <= b

\* ln(a / b) in units of ln 10, for two rates given by their exponents
LogQuotient(a, b) == b - a

\* ln(1.0 / a) in units of ln 10
LogInverse(a) == a

\* `if p >= p_th: raise ValueError`
AboveThreshold(p) == RateGE(p, p_th)

\* _calculate_code_distance without `if d % 2 == 0: d += 1`
code_distance_parity_skipped(p, p_L) ==
    Max(ceil(Rat(2 * LogInverse(p_L), LogQuotient(p_th, p))), 3)

\* _calculate_code_distance with the quotient of logarithms inverted
code_distance_quotient_inverted(p, p_L) ==
    LET d == ceil(Rat(2 * LogQuotient(p_th, p), LogInverse(p_L)))
        odd == IF d % 2 = 0 THEN d + 1 ELSE d
    IN  Max(odd, 3)

\* _calculate_code_distance with the factor 2 of the quotient dropped
code_distance_factor_dropped(p, p_L) ==
    LET d == ceil(Rat(LogInverse(p_L), LogQuotient(p_th, p)))
        odd == IF d % 2 = 0 THEN d + 1 ELSE d
    IN  Max(odd, 3)

\* The lines after the threshold check of _calculate_code_distance.
_calculate_code_distance(p, p_L) ==
    LET log_ratio == LogQuotient(p_th, p)
        d == ceil(Rat(2 * LogInverse(p_L), log_ratio))
        odd == IF d % 2 = 0 THEN d + 1 ELSE d
    IN  Max(odd, 3)

\* 2 * d for 2 * d ** 2
qubits_per_logical_linear(code_distance) == 2 * code_distance

_calculate_qubits_per_logical(code_distance) == 2 * code_distance * code_distance

\* An Optional field: the value given, or the default computed.
OrElse(opt, default) == IF opt = {} THEN default ELSE CHOOSE v \in opt : TRUE

\* __post_init__ raises exactly when the distance is derived and the rate is
\* at or above threshold.
PostInitRaises(a) == a.code_distance = {} /\ AboveThreshold(a.digital_error_rate)

\* The config object __post_init__ leaves behind.
__post_init__(a) ==
    LET d == OrElse(a.code_distance,
                    _calculate_code_distance(a.digital_error_rate,
                                             a.target_logical_error_rate))
        gate == RMul(FromInt(d), a.physical_gate_time)
    IN  [logical_qubits |-> a.logical_qubits,
         target_runtime |-> a.target_runtime,
         digital_error_rate |-> a.digital_error_rate,
         target_logical_error_rate |-> a.target_logical_error_rate,
         code_distance |-> d,
         qubits_per_logical |->
             OrElse(a.qubits_per_logical, _calculate_qubits_per_logical(d)),
         t_gate_count |-> a.t_gate_count,
         magic_state_overhead_factor |-> a.magic_state_overhead_factor,
         compilation_overhead_factor |-> a.compilation_overhead_factor,
         physical_gate_time |-> a.physical_gate_time,
         logical_gate_time |-> OrElse(a.logical_gate_time, gate),
         error_correction_cycle_time |-> OrElse(a.error_correction_cycle_time, gate)]

\* DigitalResourceConfig(...): the dataclass constructor and __post_init__.
DigitalResourceConfig(Args) ==
    /\ digital_args = {}
    /\ \E a \in Args :
        /\ digital_args' = {a}
        /\ IF PostInitRaises(a)
           THEN /\ digital_raised' = "ValueError"
                /\ UNCHANGED digital_config
           ELSE /\ digital_config' = {__post_init__(a)}
                /\ UNCHANGED digital_raised
    /\ UNCHANGED <<digital_estimator, analog_vars, report_vars, table_vars, ret>>

----------------------------------------------------------------------------
(* DigitalResourceEstimator                                                *)

data_qubits(c) == c.logical_qubits * c.qubits_per_logical

magic_state_product(c) ==
    RMul(RMul(FromInt(c.t_gate_count), c.magic_state_overhead_factor),
         FromInt(c.qubits_per_logical))

\* round(...) in place of int(...)
magic_state_qubits_rounded(c) == round(magic_state_product(c))

magic_state_qubits(c) == int(magic_state_product(c))

compilation_product(c) ==
    RMul(FromInt(data_qubits(c)), RSub(c.compilation_overhead_factor, One))

\* round(...) in place of int(...)
compilation_qubits_rounded(c) == round(compilation_product(c))

compilation_qubits(c) == int(compilation_product(c))

\* the sum with the compilation qubits left out
total_without_compilation(data, magic, compilation) == data + magic

total_physical_qubits(data, magic, compilation) == data + magic + compilation

space_time_volume(total, c) == RMul(FromInt(total), c.target_runtime)

\* The fields _calculate_resources assigns.
_calculate_resources(c) ==
    LET data == data_qubits(c)
        magic == magic_state_qubits(c)
        compilation == compilation_qubits(c)
        total == total_physical_qubits(data, magic, compilation)
    IN  [_data_qubits |-> data,
         _magic_state_qubits |-> magic,
         _compilation_qubits |-> compilation,
         _total_physical_qubits |-> total,
         _logical_gate_count |-> int(RDiv(c.target_runtime, c.logical_gate_time)),
         _space_time_volume |-> space_time_volume(total, c)]

\* DigitalResourceEstimator(config): __init__ and _calculate_resources.
DigitalResourceEstimator ==
    /\ digital_config # {}
    /\ digital_estimator = {}
    /\ digital_raised = "none"
    /\ LET c == CHOOSE x \in digital_config : TRUE
       IN  IF ZeroDivisionError(c.logical_gate_time)
           THEN /\ digital_raised' = "ZeroDivisionError"
                /\ UNCHANGED digital_estimator
           ELSE /\ digital_estimator' = {_calculate_resources(c)}
                /\ UNCHANGED digital_raised
    /\ UNCHANGED <<digital_args, digital_config, analog_vars, report_vars, table_vars, ret>>

\* get_wall_clock_time with `d / 10.0` for `1.0 + (d / 10.0)`
wall_clock_time_bare_stabilization(c) ==
    RMul(c.target_runtime,
         RMul(RMul(Rat(c.code_distance, 10),
                   RAdd(One, RMul(c.magic_state_overhead_factor, Rat(1, 10)))),
              Rat(3, 2)))

\* get_wall_clock_time
wall_clock_time(c) ==
    LET stabilization_overhead == RAdd(One, Rat(c.code_distance, 10))
        magic_state_time_factor ==
            RAdd(One, RMul(c.magic_state_overhead_factor, Rat(1, 10)))
        trotter_overhead_factor == Rat(3, 2)
        qec_overhead_factor ==
            RMul(RMul(stabilization_overhead, magic_state_time_factor),
                 trotter_overhead_factor)
    IN  RMul(c.target_runtime, qec_overhead_factor)

get_wall_clock_time ==
    /\ digital_estimator # {}
    /\ ret' = [op |-> "get_wall_clock_time", arg |-> {},
               val |-> wall_clock_time(CHOOSE x \in digital_config : TRUE)]
    /\ UNCHANGED <<digital_vars, analog_vars, report_vars, table_vars>>

\* get_logical_error_rate: 0.1 * (p / p_th) ** ((d + 1) / 2), returned as
\* its decimal logarithm x (the rate is 10^x).
logical_error_rate(c) ==
    LET exponent == Rat(c.code_distance + 1, 2)
    IN  [form |-> "10 ** x",
         x |-> RAdd(FromInt(-1),
                    RMul(FromInt(LogQuotient(c.digital_error_rate, p_th)), exponent))]

get_logical_error_rate ==
    /\ digital_estimator # {}
    /\ ret' = [op |-> "get_logical_error_rate", arg |-> {},
               val |-> logical_error_rate(CHOOSE x \in digital_config : TRUE)]
    /\ UNCHANGED <<digital_vars, analog_vars, report_vars, table_vars>>

\* get_algorithm_success_probability: (1.0 - p_L) ** logical_gate_count
algorithm_success_probability(c, e) ==
    [form |-> "(1 - 10 ** x) ** n",
     x |-> logical_error_rate(c).x,
     n |-> e._logical_gate_count]

get_algorithm_success_probability ==
    /\ digital_estimator # {}
    /\ ret' = [op |-> "get_algorithm_success_probability", arg |-> {},
               val |-> algorithm_success_probability(
                           CHOOSE x \in digital_config : TRUE,
                           CHOOSE x \in digital_estimator : TRUE)]
    /\ UNCHANGED <<digital_vars, analog_vars, report_vars, table_vars>>

\* get_physical_gate_count
physical_gate_count(c, e) ==
    e._logical_gate_count * (c.code_distance * c.code_distance * c.code_distance)

get_physical_gate_count ==
    /\ digital_estimator # {}
    /\ ret' = [op |-> "get_physical_gate_count", arg |-> {},
               val |-> physical_gate_count(CHOOSE x \in digital_config : TRUE,
                                           CHOOSE x \in digital_estimator : TRUE)]
    /\ UNCHANGED <<digital_vars, analog_vars, report_vars, table_vars>>

\* x / 1e6
Seconds(x) == RDiv(x, FromInt(1000000))

\* get_wall_clock_time_hours: get_wall_clock_time_seconds() / 3600.0, returned
\* by the number of seconds x it divides.
get_wall_clock_time_hours(c) ==
    [form |-> "x / 3600", x |-> Seconds(wall_clock_time(c))]

\* DigitalResourceEstimator.summary: the dict returned
digital_summary_dict(c, e) ==
    [logical_qubits |-> c.logical_qubits,
     code_distance |-> c.code_distance,
     qubits_per_logical |-> c.qubits_per_logical,
     data_qubits |-> e._data_qubits,
     magic_state_qubits |-> e._magic_state_qubits,
     compilation_qubits |-> e._compilation_qubits,
     total_physical_qubits |-> e._total_physical_qubits,
     target_runtime_us |-> c.target_runtime,
     target_runtime_s |-> Seconds(c.target_runtime),
     wall_clock_time_hours |-> get_wall_clock_time_hours(c),
     wall_clock_time_seconds |-> Seconds(wall_clock_time(c)),
     wall_clock_time_us |-> wall_clock_time(c),
     logical_gate_count |-> e._logical_gate_count,
     physical_gate_count |-> physical_gate_count(c, e),
     space_time_volume_qubit_us |-> e._space_time_volume,
     space_time_volume_qubit_s |-> Seconds(e._space_time_volume),
     logical_error_rate |-> logical_error_rate(c),
     algorithm_success_probability |-> algorithm_success_probability(c, e),
     physical_error_rate |-> c.digital_error_rate]

digital_summary ==
    /\ digital_estimator # {}
    /\ ret' = [op |-> "DigitalResourceEstimator.summary", arg |-> {},
               val |-> digital_summary_dict(CHOOSE x \in digital_config : TRUE,
                                            CHOOSE x \in digital_estimator : TRUE)]
    /\ UNCHANGED <<digital_vars, analog_vars, report_vars, table_vars>>

----------------------------------------------------------------------------
(* AnalogSimulatorConfig and AnalogSimulator                               *)

MaxWidth == 2

\* circuit_width runs further than the explicit lists do: a wider circuit
\* takes the default list [default_t1] * circuit_width.
MaxDefaultWidth == 5

\* T1 times in microseconds
T1Values == {-100, 0, 50, 100}

RECURSIVE SeqsUpTo(_, _)
SeqsUpTo(S, n) ==
    IF n = 0 THEN {<<>>}
    ELSE LET shorter == SeqsUpTo(S, n - 1)
         IN  shorter \cup {Append(q, v) : q \in {x \in shorter : Len(x) = n - 1}, v \in S}

\* qubit_t1_times: {} is None, {q} is the list q
T1Lists == {{}} \cup {{q} : q \in SeqsUpTo(T1Values, MaxWidth)}

RuntimeMultipliers == {Zero, Rat(1, 2), Rat(255, 256), One}

\* default_t1 = 100.0
default_t1 == 100

AnalogArgs ==
    [circuit_width : 0 .. MaxDefaultWidth,
     qubit_t1_times : T1Lists,
     max_runtime_multiplier : RuntimeMultipliers]

\* [x] * n
Repeat(x, n) == [i \in 1 .. n |-> x]

\* `elif len(self.qubit_t1_times) != self.circuit_width: raise ValueError`
LengthMismatch(a) ==
    /\ a.qubit_t1_times # {}
    /\ Len(CHOOSE q \in a.qubit_t1_times : TRUE) # a.circuit_width

\* AnalogSimulatorConfig(...): the dataclass constructor and __post_init__.
AnalogSimulatorConfig(Args) ==
    /\ analog_args = {}
    /\ \E a \in Args :
        /\ analog_args' = {a}
        /\ IF LengthMismatch(a)
           THEN /\ analog_raised' = "ValueError"
                /\ UNCHANGED analog_config
           ELSE /\ analog_config' =
                      {[circuit_width |-> a.circuit_width,
                        qubit_t1_times |->
                            OrElse(a.qubit_t1_times,
                                   Repeat(default_t1, a.circuit_width)),
                        max_runtime_multiplier |-> a.max_runtime_multiplier]}
                /\ UNCHANGED analog_raised
    /\ UNCHANGED <<analog_sim, digital_vars, report_vars, table_vars, ret>>

\* sum(1.0 / t1 for t1 in qubit_t1_times), for a list without a zero
RECURSIVE reciprocal_sum(_)
reciprocal_sum(q) ==
    IF q = <<>> THEN Zero
    ELSE RAdd(reciprocal_sum(SubSeq(q, 1, Len(q) - 1)), Rat(1, q[Len(q)]))

\* _calculate_system_t1 raises on 1.0 / t1 with t1 == 0 and on
\* 1.0 / reciprocal_sum with a sum of 0 (the empty list included).
SystemT1Raises(q) ==
    \/ \E i \in 1 .. Len(q) : ZeroDivisionError(FromInt(q[i]))
    \/ ZeroDivisionError(reciprocal_sum(q))

\* the harmonic mean n / sum(1 / t1) for 1 / sum(1 / t1)
system_t1_harmonic_mean(q) == RDiv(FromInt(Len(q)), reciprocal_sum(q))

_calculate_system_t1(q) == RDiv(One, reciprocal_sum(q))

_calculate_feasible_runtime(system_t1, c) == RMul(system_t1, c.max_runtime_multiplier)

\* AnalogSimulator(config): __init__ with both calculations.
AnalogSimulator ==
    /\ analog_config # {}
    /\ analog_sim = {}
    /\ analog_raised = "none"
    /\ LET c == CHOOSE x \in analog_config : TRUE
       IN  IF SystemT1Raises(c.qubit_t1_times)
           THEN /\ analog_raised' = "ZeroDivisionError"
                /\ UNCHANGED analog_sim
           ELSE /\ analog_sim' =
                      LET t1 == _calculate_system_t1(c.qubit_t1_times)
                      IN  {[_system_t1 |-> t1,
                            _feasible_runtime |-> _calculate_feasible_runtime(t1, c)]}
                /\ UNCHANGED analog_raised
    /\ UNCHANGED <<analog_args, analog_config, digital_vars, report_vars, table_vars, ret>>

\* The `runtime` arguments the analog queries are called with: None, or 10 us.
QueryRuntimes == {{}, {FromInt(10)}}

\* `self._feasible_runtime = runtime` for the local `runtime = ...`
self_after_runtime_stored(sim, runtime) ==
    [sim EXCEPT !._feasible_runtime = OrElse(runtime, sim._feasible_runtime)]

\* get_decoherence_error assigns its local `runtime` only: the object it
\* leaves behind is the object it was called on.
self_after_get_decoherence_error(sim, runtime) == sim

\* get_decoherence_error: 1.0 - np.exp(-runtime / self._system_t1), returned
\* by the quotient x = runtime / system_t1.
decoherence_error(sim, runtime) ==
    [form |-> "1 - exp(-x)",
     x |-> RDiv(OrElse(runtime, sim._feasible_runtime), sim._system_t1)]

\* get_fidelity: 1.0 - get_total_error(runtime)
fidelity(sim, runtime) ==
    [form |-> "1 - (1 - exp(-x))", x |-> decoherence_error(sim, runtime).x]

get_decoherence_error ==
    /\ analog_sim # {}
    /\ \E runtime \in QueryRuntimes :
           LET sim == CHOOSE x \in analog_sim : TRUE
           IN  /\ ret' = [op |-> "get_decoherence_error", arg |-> runtime,
                          val |-> decoherence_error(sim, runtime)]
               /\ analog_sim' = {self_after_get_decoherence_error(sim, runtime)}
    /\ UNCHANGED <<analog_args, analog_config, analog_raised, digital_vars, report_vars, table_vars>>

\* get_total_error returns get_decoherence_error(runtime).
get_total_error ==
    /\ analog_sim # {}
    /\ \E runtime \in QueryRuntimes :
           LET sim == CHOOSE x \in analog_sim : TRUE
           IN  /\ ret' = [op |-> "get_total_error", arg |-> runtime,
                          val |-> decoherence_error(sim, runtime)]
               /\ analog_sim' = {self_after_get_decoherence_error(sim, runtime)}
    /\ UNCHANGED <<analog_args, analog_config, analog_raised, digital_vars, report_vars, table_vars>>

get_fidelity ==
    /\ analog_sim # {}
    /\ \E runtime \in QueryRuntimes :
           LET sim == CHOOSE x \in analog_sim : TRUE
           IN  /\ ret' = [op |-> "get_fidelity", arg |-> runtime,
                          val |-> fidelity(sim, runtime)]
               /\ analog_sim' = {self_after_get_decoherence_error(sim, runtime)}
    /\ UNCHANGED <<analog_args, analog_config, analog_raised, digital_vars, report_vars, table_vars>>

\* AnalogSimulator.summary: the dict returned
analog_summary_dict(c, sim) ==
    [circuit_width |-> c.circuit_width,
     system_t1_us |-> sim._system_t1,
     feasible_runtime_us |-> sim._feasible_runtime,
     feasible_runtime_ms |-> RDiv(sim._feasible_runtime, FromInt(1000)),
     feasible_runtime_s |-> Seconds(sim._feasible_runtime),
     fidelity |-> fidelity(sim, {}),
     decoherence_error |-> decoherence_error(sim, {}),
     total_error |-> decoherence_error(sim, {})]

\* summary calls get_fidelity, get_decoherence_error and get_total_error
\* with no argument.
analog_summary ==
    /\ analog_sim # {}
    /\ LET sim == CHOOSE x \in analog_sim : TRUE
       IN  /\ ret' = [op |-> "AnalogSimulator.summary", arg |-> {},
                      val |-> analog_summary_dict(CHOOSE x \in analog_config : TRUE, sim)]
           /\ analog_sim' = {self_after_get_decoherence_error(sim, {})}
    /\ UNCHANGED <<analog_args, analog_config, analog_raised, digital_vars, report_vars, table_vars>>

----------------------------------------------------------------------------
(* generate_comparison_report                                              *)

\* float64 semantics: the division yields inf and nothing is raised
division_never_raises(sim) == FALSE

\* `runtime_ratio = digital_est.config.target_runtime / analog_sim.feasible_runtime`
\* is the first division of the comparison section; the divisions before it
\* (by system_t1, by 1e6, by 3600.0) have non-zero divisors.
ComparisonRaises(sim) == ZeroDivisionError(sim._feasible_runtime)

\* the digital wall-clock time in place of the logical target_runtime
runtime_ratio_wall_clock(dc, sim) == RDiv(wall_clock_time(dc), sim._feasible_runtime)

runtime_ratio(dc, sim) == RDiv(dc.target_runtime, sim._feasible_runtime)

\* `'analog_faster': runtime_ratio > 1` taken on the rounded ratio
analog_faster_rounded(ratio) == RLt(One, round2(ratio))

analog_faster(ratio) == RLt(One, ratio)

\* The values report['comparison'] can take.
comparison(ac, sim, dc, est) ==
    LET ratio == runtime_ratio(dc, sim)
        analog_qubit_seconds ==
            RMul(FromInt(ac.circuit_width), Seconds(sim._feasible_runtime))
        digital_qubit_seconds == Seconds(est._space_time_volume)
    IN  [qubit_count_ratio :
             round2_values(Rat(est._total_physical_qubits, ac.circuit_width)),
         runtime_ratio_digital_to_analog : round2_values(ratio),
         analog_faster : {analog_faster(ratio)},
         analog_qubit_seconds : round2_values(analog_qubit_seconds),
         digital_qubit_seconds : round2_values(digital_qubit_seconds),
         ratio : round2_values(RDiv(digital_qubit_seconds, analog_qubit_seconds))]

generate_comparison_report ==
    /\ analog_sim # {}
    /\ digital_estimator # {}
    /\ report = {}
    /\ report_raised = "none"
    /\ LET ac == CHOOSE x \in analog_config : TRUE
           sim == CHOOSE x \in analog_sim : TRUE
           dc == CHOOSE x \in digital_config : TRUE
           est == CHOOSE x \in digital_estimator : TRUE
       IN  IF ComparisonRaises(sim)
           THEN /\ report_raised' = "ZeroDivisionError"
                /\ UNCHANGED report
           ELSE /\ \E r \in comparison(ac, sim, dc, est) : report' = {r}
                /\ UNCHANGED report_raised
    /\ UNCHANGED <<digital_vars, analog_vars, table_vars, ret>>

----------------------------------------------------------------------------
(* format_report_table                                                     *)

\* the quotient is taken whatever the divisor
verdict_never_raises(comparison_dict) == FALSE

\* `1/comparison['runtime_ratio_digital_to_analog']` in the else branch of
\* `if comparison['analog_faster']`: the only division of format_report_table.
VerdictRaises(comparison_dict) ==
    /\ ~comparison_dict.analog_faster
    /\ ZeroDivisionError(comparison_dict.runtime_ratio_digital_to_analog)

\* The verdict line of the table: which side is faster, and the factor shown.
verdict_line(comparison_dict) ==
    IF comparison_dict.analog_faster
    THEN [faster |-> "Analog simulation",
          factor |-> comparison_dict.runtime_ratio_digital_to_analog]
    ELSE [faster |-> "Digital computation",
          factor |-> RDiv(One, comparison_dict.runtime_ratio_digital_to_analog)]

format_report_table ==
    /\ report # {}
    /\ table = {}
    /\ table_raised = "none"
    /\ LET comparison_dict == CHOOSE r \in report : TRUE
       IN  IF VerdictRaises(comparison_dict)
           THEN /\ table_raised' = "ZeroDivisionError"
                /\ UNCHANGED table
           ELSE /\ table' = {verdict_line(comparison_dict)}
                /\ UNCHANGED table_raised
    /\ UNCHANGED <<digital_vars, analog_vars, report_vars, ret>>

----------------------------------------------------------------------------
(* The specifications.                                                     *)

\* The digital arguments the report is exercised with: the fields the
\* comparison never reads are left at one value, and the target runtimes are
\* such that no runtime ratio is a non-dyadic tie at two decimals.
ReportTargetRuntimes == {Rat(7, 32), FromInt(25)}

ReportDigitalArgs ==
    [logical_qubits : 1 .. MaxLogicalQubits,
     target_runtime : ReportTargetRuntimes,
     digital_error_rate : {3},
     target_logical_error_rate : {MaxTargetExp},
     code_distance : CodeDistances,
     qubits_per_logical : {{}},
     t_gate_count : {100},
     magic_state_overhead_factor : {FromInt(2)},
     compilation_overhead_factor : {Rat(3, 2)},
     physical_gate_time : PhysicalGateTimes,
     logical_gate_time : {{}},
     error_correction_cycle_time : {{}}]

\* The analog arguments the report is exercised with: those both analog
\* constructors accept.
ReportAnalogArgs ==
    {a \in AnalogArgs :
        /\ a.circuit_width \in 1 .. MaxWidth
        /\ \A q \in a.qubit_t1_times :
               /\ Len(q) = a.circuit_width
               /\ \A i \in 1 .. Len(q) : q[i] > 0}

Init ==
    /\ digital_args = {}
    /\ digital_config = {}
    /\ digital_estimator = {}
    /\ digital_raised = "none"
    /\ analog_args = {}
    /\ analog_config = {}
    /\ analog_sim = {}
    /\ analog_raised = "none"
    /\ report = {}
    /\ report_raised = "none"
    /\ table = {}
    /\ table_raised = "none"
    /\ ret = [op |-> "none", arg |-> {}, val |-> Zero]

\* The digital estimator alone, over all its arguments.
NextDigital ==
    \/ DigitalResourceConfig(DigitalArgs)
    \/ DigitalResourceEstimator
    \/ get_wall_clock_time
    \/ get_logical_error_rate

SpecDigital == Init /\ [][NextDigital]_vars

\* The analog simulator alone.
NextAnalog ==
    \/ AnalogSimulatorConfig(AnalogArgs)
    \/ AnalogSimulator

SpecAnalog == Init /\ [][NextAnalog]_vars

\* Both models and the report over them.
Next ==
    \/ DigitalResourceConfig(ReportDigitalArgs)
    \/ DigitalResourceEstimator
    \/ AnalogSimulatorConfig(ReportAnalogArgs)
    \/ AnalogSimulator
    \/ get_decoherence_error
    \/ get_total_error
    \/ get_fidelity
    \/ analog_summary
    \/ get_logical_error_rate
    \/ get_algorithm_success_probability
    \/ get_physical_gate_count
    \/ get_wall_clock_time
    \/ digital_summary
    \/ generate_comparison_report
    \/ format_report_table

Spec == Init /\ [][Next]_vars

----------------------------------------------------------------------------
(* Properties.                                                             *)

\* A config inside the documented ranges: rate below threshold, odd
\* distance >= 3, every count and factor positive.
ValidDigitalConfig(c) ==
    /\ ~AboveThreshold(c.digital_error_rate)
    /\ c.target_logical_error_rate >= 1
    /\ c.code_distance >= 3
    /\ c.code_distance % 2 = 1
    /\ c.logical_qubits >= 1
    /\ c.qubits_per_logical >= 1
    /\ c.t_gate_count >= 1
    /\ RLt(Zero, c.target_runtime)
    /\ RLt(Zero, c.magic_state_overhead_factor)
    /\ RLt(Zero, c.compilation_overhead_factor)
    /\ RLt(Zero, c.physical_gate_time)
    /\ RLt(Zero, c.logical_gate_time)
    /\ RLt(Zero, c.error_correction_cycle_time)

\* m is x with its fractional part dropped.
TruncationOf(m, x) ==
    IF RLe(Zero, x)
    THEN RLe(FromInt(m), x) /\ RLt(x, FromInt(m + 1))
    ELSE RLt(FromInt(m - 1), x) /\ RLe(x, FromInt(m))

\* The fractional part of x is at least one half away from the truncation.
RoundsAway(x) == round(x) # int(x)

OddAtLeast3(d) == d >= 3 /\ d % 2 = 1

\* C1: a digital_error_rate at or above the 0.01 threshold never yields a
\* config object or an estimator, whatever optional fields are supplied:
\* construction raises ValueError.
C1_AboveThresholdRaises ==
    \A a \in digital_args :
        AboveThreshold(a.digital_error_rate) =>
            /\ digital_config = {}
            /\ digital_estimator = {}
            /\ digital_raised = "ValueError"

\* C2: a qubit_t1_times list holding a zero or negative value never yields an
\* AnalogSimulator object.
C2_NonPositiveT1NoSimulator ==
    \A c \in analog_config :
        (\E i \in 1 .. Len(c.qubit_t1_times) : c.qubit_t1_times[i] <= 0) =>
            analog_sim = {}

\* C3: with feasible_runtime = 0 generate_comparison_report returns nothing
\* (once called, it has raised), and no report that is returned holds an
\* infinite runtime ratio or space-time ratio.
C3_ZeroRuntimeComparisonRaises ==
    /\ \A sim \in analog_sim :
           sim._feasible_runtime = Zero =>
               /\ report = {}
               /\ report_raised \in {"none", "ZeroDivisionError"}
    /\ \A r \in report :
           /\ ~IsInf(r.runtime_ratio_digital_to_analog)
           /\ ~IsInf(r.ratio)

\* C3 witness: the report was asked for over a zero feasible runtime and raised.
C3_Witness ==
    /\ \E sim \in analog_sim : sim._feasible_runtime = Zero
    /\ report_raised = "ZeroDivisionError"

\* C4 as stated: magic_state_qubits is the product t_gate_count *
\* magic_state_overhead_factor * qubits_per_logical rounded to the nearest
\* integer.
C4_MagicStateQubitsRounded ==
    \A c \in digital_config : \A e \in digital_estimator :
        ValidDigitalConfig(c) =>
            e._magic_state_qubits = round(magic_state_product(c))

\* C4 amended: for a valid config magic_state_qubits is that product with its
\* fractional part dropped (int(...)), never rounded up.
C4_MagicStateQubitsTruncated ==
    \A c \in digital_config : \A e \in digital_estimator :
        ValidDigitalConfig(c) =>
            TruncationOf(e._magic_state_qubits,
                         RMul(FromInt(c.t_gate_count * c.qubits_per_logical),
                              c.magic_state_overhead_factor))

\* C4 witness: an estimator over a valid config whose magic-state product has
\* a fractional part of more than one half.
C4_Witness ==
    \E c \in digital_config : \E e \in digital_estimator :
        /\ ValidDigitalConfig(c)
        /\ RoundsAway(magic_state_product(c))
        /\ e._magic_state_qubits >= 1

\* C5 as stated: compilation_qubits is data_qubits *
\* (compilation_overhead_factor - 1) rounded to the nearest integer.
C5_CompilationQubitsRounded ==
    \A c \in digital_config : \A e \in digital_estimator :
        ValidDigitalConfig(c) =>
            e._compilation_qubits = round(compilation_product(c))

\* C5 amended: for a valid config compilation_qubits is that product
\* truncated toward zero (int(...)).
C5_CompilationQubitsTruncated ==
    \A c \in digital_config : \A e \in digital_estimator :
        ValidDigitalConfig(c) =>
            TruncationOf(e._compilation_qubits,
                         RMul(FromInt(e._data_qubits),
                              RSub(c.compilation_overhead_factor, One)))

\* C5 witness: an estimator over a valid config whose compilation product is
\* positive with a fractional part of more than one half.
C5_Witness ==
    \E c \in digital_config : \E e \in digital_estimator :
        /\ ValidDigitalConfig(c)
        /\ RLt(Zero, compilation_product(c))
        /\ RoundsAway(compilation_product(c))

C7_EveryDistanceOddAtLeast3 ==
    \A c \in digital_config : OddAtLeast3(c.code_distance)

\* C8: the derived distance is monotone in the stringency of the target: a
\* target at least as strict gives a distance at least as large.
C8_DerivedDistanceMonotone ==
    \A a \in digital_args : \A c \in digital_config :
        a.code_distance = {} =>
            \A other \in 1 .. (MaxTargetExp + 1) :
                LET d_other ==
                        _calculate_code_distance(a.digital_error_rate, other)
                IN  /\ RateGE(other, a.target_logical_error_rate) =>
                           c.code_distance >= d_other
                    /\ RateGE(a.target_logical_error_rate, other) =>
                           d_other >= c.code_distance

\* C8 witness: a derived distance strictly above the one a laxer target gives.
C8_Witness ==
    \E a \in digital_args : \E c \in digital_config :
        /\ a.code_distance = {}
        /\ \E other \in TargetRateExps :
               /\ other < a.target_logical_error_rate
               /\ _calculate_code_distance(a.digital_error_rate, other)
                      < c.code_distance

\* C9: total_physical_qubits = data + magic + compilation, data_qubits =
\* logical_qubits * qubits_per_logical, and space_time_volume =
\* total_physical_qubits * target_runtime.
C9_QubitTotals ==
    \A c \in digital_config : \A e \in digital_estimator :
        ValidDigitalConfig(c) =>
            /\ e._total_physical_qubits - e._compilation_qubits
                   = e._data_qubits + e._magic_state_qubits
            /\ e._data_qubits = c.logical_qubits * c.qubits_per_logical
            /\ e._space_time_volume.n * c.target_runtime.d
                   = e._total_physical_qubits * c.target_runtime.n
                         * e._space_time_volume.d

\* C9 witness: an estimator over a valid config with all three parts non-zero.
C9_Witness ==
    \E c \in digital_config : \E e \in digital_estimator :
        /\ ValidDigitalConfig(c)
        /\ e._data_qubits > 0
        /\ e._magic_state_qubits > 0
        /\ e._compilation_qubits > 0

\* C10: for a valid config get_wall_clock_time returns target_runtime *
\* (1 + d/10) * (1 + 0.1 * magic_state_overhead_factor) * 1.5, which is at
\* least target_runtime.
C10_WallClockTime ==
    \A c \in digital_config :
        (ret.op = "get_wall_clock_time" /\ ValidDigitalConfig(c)) =>
            /\ RMul(ret.val, FromInt(200))
                   = RMul(RMul(c.target_runtime, FromInt(3 * (10 + c.code_distance))),
                          RAdd(FromInt(10), c.magic_state_overhead_factor))
            /\ RLe(c.target_runtime, ret.val)

\* C10 witness: get_wall_clock_time has returned for a valid config, with a
\* wall-clock time above the target runtime.
C10_Witness ==
    \E c \in digital_config :
        /\ ret.op = "get_wall_clock_time"
        /\ ValidDigitalConfig(c)
        /\ RLt(c.target_runtime, ret.val)

C12_OptionalFieldsResolved ==
    \A a \in digital_args : \A c \in digital_config :
        LET d == c.code_distance
            d_gate_time == Rat(d * c.physical_gate_time.n, c.physical_gate_time.d)
        IN  /\ a.code_distance # {} => a.code_distance = {d}
            /\ IF a.qubits_per_logical = {}
               THEN c.qubits_per_logical = 2 * d * d
               ELSE a.qubits_per_logical = {c.qubits_per_logical}
            /\ IF a.logical_gate_time = {}
               THEN c.logical_gate_time = d_gate_time
               ELSE a.logical_gate_time = {c.logical_gate_time}
            /\ IF a.error_correction_cycle_time = {}
               THEN c.error_correction_cycle_time = d_gate_time
               ELSE a.error_correction_cycle_time = {c.error_correction_cycle_time}

\* C12 witness: a derived distance above the minimum fills qubits_per_logical
\* and logical_gate_time while a supplied error_correction_cycle_time stays.
C12_Witness ==
    \E a \in digital_args : \E c \in digital_config :
        /\ a.code_distance = {}
        /\ c.code_distance >= 5
        /\ a.qubits_per_logical = {}
        /\ a.logical_gate_time = {}
        /\ a.error_correction_cycle_time # {}
        /\ c.error_correction_cycle_time # c.logical_gate_time

Distance(a, b) == IF RLe(a, b) THEN RSub(b, a) ELSE RSub(a, b)

\* C13: the report's runtime ratio is target_runtime / feasible_runtime
\* rounded to two decimals (not the wall-clock time over it), and
\* analog_faster is true exactly when the unrounded quotient exceeds 1, so
\* it is false when target_runtime = feasible_runtime.
C13_RuntimeRatio ==
    \A r \in report : \A dc \in digital_config : \A sim \in analog_sim :
        LET T == dc.target_runtime
            f == sim._feasible_runtime
        IN  /\ RLe(Distance(RMul(r.runtime_ratio_digital_to_analog, f), T),
                   RMul(Rat(1, 200), IF RLt(f, Zero) THEN RNeg(f) ELSE f))
            /\ r.analog_faster <=> (RLt(Zero, f) /\ RLt(f, T))
            /\ T = f => ~r.analog_faster

\* C13 witness: a report over target_runtime = feasible_runtime, with ratio
\* 1.0 and analog_faster false.
C13_Witness ==
    \E r \in report : \E dc \in digital_config : \E sim \in analog_sim :
        /\ dc.target_runtime = sim._feasible_runtime
        /\ r.runtime_ratio_digital_to_analog = One
        /\ ~r.analog_faster

\* C13 witness of the unrounded comparison: a ratio above 1 that rounds to
\* 1.0, with analog_faster true.
C13_WitnessUnrounded ==
    \E r \in report :
        /\ r.runtime_ratio_digital_to_analog = One
        /\ r.analog_faster

\* C14: once a config or model object exists no step changes it (queries and
\* the report leave configs and derived fields as they were), and a query
\* repeated with the same argument returns the same value.
C14_QueriesChangeNothing ==
    [][/\ analog_config # {} => analog_config' = analog_config
       /\ analog_sim # {} => analog_sim' = analog_sim
       /\ digital_config # {} => digital_config' = digital_config
       /\ digital_estimator # {} => digital_estimator' = digital_estimator
       /\ (ret.op # "none" /\ ret'.op = ret.op /\ ret'.arg = ret.arg) =>
              ret'.val = ret.val]_vars

\* C14 witness: a query with an explicit runtime has returned after the
\* report was generated, over both models.
C14_Witness ==
    /\ report # {}
    /\ digital_estimator # {}
    /\ ret.op = "get_fidelity"
    /\ ret.arg # {}
    /\ \E sim \in analog_sim : {sim._feasible_runtime} # ret.arg

PositiveParameters(c) ==
    /\ c.logical_qubits > 0
    /\ c.t_gate_count > 0
    /\ c.code_distance > 0
    /\ c.qubits_per_logical > 0
    /\ RLt(Zero, c.target_runtime)
    /\ RLt(Zero, c.magic_state_overhead_factor)
    /\ RLt(Zero, c.compilation_overhead_factor)
    /\ RLt(Zero, c.physical_gate_time)

\* C16: for a config whose numeric parameters are positive the three qubit
\* counts are non-negative and total_physical_qubits is at least data_qubits.
C16_QubitCountsNonNegative ==
    \A c \in digital_config : \A e \in digital_estimator :
        PositiveParameters(c) =>
            /\ e._data_qubits >= 0
            /\ e._magic_state_qubits >= 0
            /\ e._compilation_qubits >= 0
            /\ e._total_physical_qubits >= e._data_qubits

\* C17: for a report built from models with feasible_runtime > 0 and
\* target_runtime > 0, format_report_table raises nothing.
C17_TableNeverRaises ==
    \A sim \in analog_sim : \A dc \in digital_config :
        (/\ report # {}
         /\ RLt(Zero, sim._feasible_runtime)
         /\ RLt(Zero, dc.target_runtime)) =>
            table_raised = "none"

====
